---- MODULE Spec2Model ----
(***************************************************************************)
(* A model of engine/immutable/tssp_file.go: the reference-counted         *)
(* tsspFile (stop flag, atomic ref, wait-group, read-write lock, LRU       *)
(* token), its per-level memory accounting and the read wrappers.          *)
(*                                                                         *)
(* Every method is cut into one action per access to shared state (an      *)
(* atomic load/add, a wait-group call, a critical section of f.mu), so     *)
(* that the interleavings of goroutines are the behaviours of Spec.        *)
(* SpecSeq runs the same actions with a single caller, which makes every   *)
(* method call run from entry to return without interference.              *)
(***************************************************************************)
EXTENDS Integers, Sequences, FiniteSets, TLC

\* ------------------------------------------------------------------ bounds
MaxFlag  == 2   \* calls of Stop/Close/Remove per file (each adds 1 to flag)
MaxRef   == 3   \* a caller of SpecSeq takes no ref beyond this count
MaxUnder == 1   \* a caller of SpecSeq releases down to ref = 1 - MaxUnder
MaxPin   == 2   \* reader pins taken by a caller of SpecSeq
MaxSize  == 2   \* bytes a file's data section may hold (0..MaxSize)
MaxMem   == 2   \* LoadIntoMemory is not called on a level holding more
MaxSeg   == 2   \* segments of the chunk a ReadAt is given
MaxLen   == 3   \* files appended to a file set
MaxClosing == 1 \* calls of StopFiles
MaxPool  == 1   \* groups compactGroupPool holds
GroupCap == 8   \* make([]string, 0, 8): the capacity of the list of a new group

Threads  == {"t1", "t2", "t3"}      \* goroutines of Spec
Caller   == "t1"                    \* the one goroutine of SpecSeq
Files    == {"f1", "f2"}            \* the files of SpecSeq
ConcFile == "f1"                    \* the file the goroutines of Spec share
Levels   == {0, 1}

\* The read methods of tsspFile that forward to the reader.
CheckedReads   == {"MetaIndex", "MetaIndexAt", "ChunkMeta", "ChunkMetaAt", "ReadData",
                   "ReadAt", "ReadChunkMetaData", "Contains", "ContainsValue",
                   "ContainsTime", "MinMaxTime"}
UncheckedReads == {"BlockHeader", "MinMaxSeriesID", "ReadMetaBlock", "ReadDataBlock"}
ReadOps        == CheckedReads \cup UncheckedReads

\* TRUE for the read methods whose body starts with `if f.stopped() { return errFileClosed }`.
ChecksStopped(op) == op \in CheckedReads

VARIABLES
    \* tsspFile
    ref,        \* f.ref  (int32, atomic)
    flag,       \* f.flag (uint32, atomic); flag > 0 is "stopped"
    wg,         \* counter of f.wg (sync.WaitGroup)
    rl,         \* number of goroutines holding f.mu in shared mode
    memEle,     \* f.memEle != nil
    level,      \* f.name.level
    order,      \* f.name.order
    nseg,       \* cm.segmentCount() of the chunk meta that ReadAt is given
    \* the file's reader (TSSPFileReader)
    tmp,        \* IsTempleFile(base(reader.Path())): the path ends in ".init"
    dsize,      \* bytes of the data section, what LoadIntoMemory caches
    inMem,      \* reader.InMemSize()
    pin,        \* the reader's own ref count (reader.Ref / reader.Unref)
    open,       \* the reader has not been closed
    exists,     \* the path exists on disk
    inReader,   \* calls forwarded to the reader by read methods and not yet returned
    \* the evict registry
    mem,        \* per level: <<total, order, unorder>> bytes
    lru,        \* per level: the LRU list, head first
    gcq,        \* files handed to nodeTableStoreGC
    \* the file set (TSSPFiles) and the files in it
    files,      \* f.files: a sequence of files
    closing,    \* f.closing
    sflag,      \* flag of each file that may be in the set
    scall,      \* the last call on the set: what it was given, found and returned
    \* compact groups
    cg,         \* the CompactGroup a compaction holds, or NoGroup
    cgpool,     \* the groups compactGroupPool holds
    gcall,      \* the last call of NewCompactGroup / release
    \* goroutines
    pc,         \* where each goroutine is
    cont,       \* where the method it is in returns to
    tf,         \* the file it works on
    arg,        \* the argument of the call: the read method, op of FileOperation
    ret,        \* the value the last call returned
    loc,        \* the local memSize / size of the method it is in
    panicking,  \* op() of FileOperation panicked; the deferred calls are running
    trap,       \* "none", or the message of the panic that stopped the process
    \* history (read by no action)
    hold,       \* per goroutine: "none", or what its last Ref() did: "real" | "noop"
    pre,        \* per goroutine in Close/Remove: who held a real ref when it was called
    nRemove,    \* per file: calls of Remove
    nClose,     \* per file: calls of Close
    unl,        \* per file: unlink attempts <<ok, gone, fail>>
    snap        \* SpecSeq: the state at the entry of the last call

fvars == <<ref, flag, wg, rl, memEle>>
svars == <<files, closing, sflag, scall>>
gvars == <<cg, cgpool, gcall>>
\* What no method of tsspFile changes: the name and the data of a file, the file set,
\* the compact groups.
avars == <<level, order, tmp, dsize, nseg, svars, gvars>>
rvars == <<inMem, pin, open, exists, inReader>>
evars == <<mem, lru, gcq>>
tvars == <<pc, cont, tf, arg, ret, loc, panicking>>
hvars == <<hold, pre, nRemove, nClose, unl>>
vars  == <<fvars, avars, rvars, evars, tvars, trap, hvars, snap>>

NoSnap == [op |-> "none"]

\* ------------------------------------------------------------------ helpers
stopped(f) == flag[f] > 0

Inuse(f) == ref[f] > 1

Goto(t, l) == pc' = [pc EXCEPT ![t] = l]

\* The method goroutine t is in returns v to its caller.
Return(t, v) ==
    /\ pc' = [pc EXCEPT ![t] = cont[t]]
    /\ cont' = [cont EXCEPT ![t] = "done"]
    /\ ret' = [ret EXCEPT ![t] = v]

\* Goroutine t, in a method at label l, calls a method that starts at `entry`.
CallSub(t, entry, l) ==
    /\ pc' = [pc EXCEPT ![t] = entry]
    /\ cont' = [cont EXCEPT ![t] = l]

\* An idle goroutine calls a method of file f.
Enter(t, f, entry, a) ==
    /\ trap = "none"
    /\ pc[t] = "idle"
    /\ pc' = [pc EXCEPT ![t] = entry]
    /\ tf' = [tf EXCEPT ![t] = f]
    /\ arg' = [arg EXCEPT ![t] = a]
    /\ ret' = [ret EXCEPT ![t] = "none"]
    /\ loc' = [loc EXCEPT ![t] = 0]
    /\ UNCHANGED <<cont, panicking>>

At(t, l) == trap = "none" /\ pc[t] = l

\* The call of goroutine t has returned: its caller goes on, the locals are dead.
\* What the caller keeps of a returned call: the counters a successful
\* LoadIntoMemory started from, nothing of any other call.
Kept(t) ==
    IF snap.op = "LoadIntoMemory" /\ ret[t] = "nil"
    THEN [op |-> "loaded", f |-> snap.f, mem |-> snap.mem]
    ELSE NoSnap

Leave(t) ==
    /\ At(t, "done")
    /\ pc' = [pc EXCEPT ![t] = "idle"]
    /\ arg' = [arg EXCEPT ![t] = "none"]
    /\ ret' = [ret EXCEPT ![t] = "none"]
    /\ loc' = [loc EXCEPT ![t] = 0]
    /\ tf' = [tf EXCEPT ![t] = ConcFile]
    /\ snap' = Kept(t)
    /\ UNCHANGED <<fvars, avars, rvars, evars, cont, panicking, trap, hvars>>

Panic(msg) == trap' = msg

\* ------------------------------------------------------------------ Init
InitFiles ==
    /\ ref = [f \in Files |-> 1]
    /\ flag = [f \in Files |-> 0]
    /\ wg = [f \in Files |-> 0]
    /\ rl = [f \in Files |-> 0]
    /\ pin = [f \in Files |-> 0]
    /\ open = [f \in Files |-> TRUE]
    /\ exists = [f \in Files |-> TRUE]
    /\ inReader = [f \in Files |-> 0]
    /\ gcq = {}
    /\ pc = [t \in Threads |-> "idle"]
    /\ cont = [t \in Threads |-> "done"]
    /\ tf = [t \in Threads |-> ConcFile]
    /\ arg = [t \in Threads |-> "none"]
    /\ ret = [t \in Threads |-> "none"]
    /\ loc = [t \in Threads |-> 0]
    /\ panicking = [t \in Threads |-> FALSE]
    /\ trap = "none"
    /\ hold = [t \in Threads |-> "none"]
    /\ pre = [t \in Threads |-> {}]
    /\ nRemove = [f \in Files |-> 0]
    /\ nClose = [f \in Files |-> 0]
    /\ unl = [f \in Files |-> <<0, 0, 0>>]
    /\ snap = NoSnap

\* No file set is in use.
NoSet ==
    /\ files = <<>>
    /\ closing = 0
    /\ sflag = <<>>
    /\ scall = NoSnap

\* No compaction holds a group and compactGroupPool is empty.
NoGroup == [name |-> "none"]

NoGroups ==
    /\ cg = NoGroup
    /\ cgpool = {}
    /\ gcall = NoSnap

\* No file has been loaded into memory.
Unloaded ==
    /\ memEle = [f \in Files |-> FALSE]
    /\ inMem = [f \in Files |-> 0]
    /\ mem = [l \in Levels |-> <<0, 0, 0>>]
    /\ lru = [l \in Levels |-> <<>>]

\* The ordered file g of level 0 has been loaded into memory by LoadIntoMemory().
Loaded(g) ==
    /\ memEle = [f \in Files |-> f = g]
    /\ inMem = [f \in Files |-> IF f = g THEN dsize[g] ELSE 0]
    /\ mem = [l \in Levels |-> IF l = 0 THEN <<dsize[g], dsize[g], 0>> ELSE <<0, 0, 0>>]
    /\ lru = [l \in Levels |-> IF l = 0 THEN <<g>> ELSE <<>>]

\* Spec: one committed, ordered file of level 0 shared by the goroutines, loaded
\* into memory or not.
Init ==
    /\ InitFiles
    /\ level = [f \in Files |-> 0]
    /\ order = [f \in Files |-> TRUE]
    /\ tmp = [f \in Files |-> FALSE]
    /\ dsize = [f \in Files |-> MaxSize]
    /\ nseg = [f \in Files |-> MaxSeg]
    /\ NoSet
    /\ NoGroups
    /\ Unloaded \/ Loaded(ConcFile)

\* ------------------------------------------------------------------ Stop
Stop(t) ==
    /\ At(t, "stop")
    /\ flag' = [flag EXCEPT ![tf[t]] = @ + 1]
    /\ Return(t, "none")
    /\ UNCHANGED <<ref, wg, rl, memEle, avars, rvars, evars, tf, arg, loc, panicking, trap, hvars, snap>>

\* ------------------------------------------------------------------ Ref
\* Ref() without its stop check.
Ref_stoppedMutant(t) ==
    /\ At(t, "ref_chk")
    /\ Goto(t, "ref_add")
    /\ UNCHANGED <<cont, ret, hold>>
    /\ UNCHANGED <<fvars, avars, rvars, evars, tf, arg, loc, panicking, trap, pre, nRemove, nClose, unl, snap>>

Ref_stopped(t) ==
    /\ At(t, "ref_chk")
    /\ IF stopped(tf[t])
       THEN /\ Return(t, "none")
            /\ hold' = [hold EXCEPT ![t] = "noop"]
       ELSE /\ Goto(t, "ref_add")
            /\ UNCHANGED <<cont, ret, hold>>
    /\ UNCHANGED <<fvars, avars, rvars, evars, tf, arg, loc, panicking, trap, pre, nRemove, nClose, unl, snap>>

Ref_add(t) ==
    /\ At(t, "ref_add")
    /\ ref' = [ref EXCEPT ![tf[t]] = @ + 1]
    /\ Goto(t, "ref_wg")
    /\ UNCHANGED <<flag, wg, rl, memEle, avars, rvars, evars, cont, tf, arg, ret, loc, panicking, trap, hvars, snap>>

Ref_wgAdd(t) ==
    /\ At(t, "ref_wg")
    /\ wg' = [wg EXCEPT ![tf[t]] = @ + 1]
    /\ Return(t, "none")
    /\ hold' = [hold EXCEPT ![t] = "real"]
    /\ UNCHANGED <<ref, flag, rl, memEle, avars, rvars, evars, tf, arg, loc, panicking, trap, pre, nRemove, nClose, unl, snap>>

Ref(t) == Ref_stopped(t) \/ Ref_add(t) \/ Ref_wgAdd(t)

\* ------------------------------------------------------------------ Unref
Unref_add(t) ==
    /\ At(t, "unref_dec")
    /\ ref' = [ref EXCEPT ![tf[t]] = @ - 1]
    /\ Goto(t, IF ref[tf[t]] - 1 <= 0 THEN "unref_chk" ELSE "unref_done")
    /\ hold' = [hold EXCEPT ![t] = "none"]
    /\ pre' = [c \in Threads |-> pre[c] \ {t}]
    /\ UNCHANGED <<flag, wg, rl, memEle, avars, rvars, evars, cont, tf, arg, ret, loc, panicking, trap, nRemove, nClose, unl, snap>>

Unref_stopped(t) ==
    /\ At(t, "unref_chk")
    /\ IF stopped(tf[t])
       THEN Return(t, "none") /\ UNCHANGED trap
       ELSE Panic("file closed") /\ UNCHANGED <<pc, cont, ret>>
    /\ UNCHANGED <<fvars, avars, rvars, evars, tf, arg, loc, panicking, hvars, snap>>

Unref_wgDone(t) ==
    /\ At(t, "unref_done")
    /\ IF wg[tf[t]] = 0
       THEN Panic("sync: negative WaitGroup counter") /\ UNCHANGED <<wg, pc, cont, ret>>
       ELSE /\ wg' = [wg EXCEPT ![tf[t]] = @ - 1]
            /\ Return(t, "none")
            /\ UNCHANGED trap
    /\ UNCHANGED <<ref, flag, rl, memEle, avars, rvars, evars, tf, arg, loc, panicking, hvars, snap>>

Unref(t) == Unref_add(t) \/ Unref_stopped(t) \/ Unref_wgDone(t)

\* ------------------------------------------------------------------ reader pins
\* f.reader.Ref(): the reader counts one more user of its cache.
\* ------------------------------------------------------------------ the reader
\* The reader of a file (f.reader) as the specification describes it: a pin count,
\* the size of the data it caches, a handle that Close() gives up.
ReaderRef(f) == pin' = [pin EXCEPT ![f] = @ + 1]

ReaderUnref(f) == pin' = [pin EXCEPT ![f] = @ - 1]

ReaderInMemSize(f) == inMem[f]

\* reader.LoadIntoMemory() caches the data section of the file.
ReaderLoadIntoMemory(f) == inMem' = [inMem EXCEPT ![f] = dsize[f]]

\* reader.FreeMemory() drops the cache and returns the size it had.
ReaderFreeMemory(f) == inMem' = [inMem EXCEPT ![f] = 0]

ReaderClose(f) == open' = [open EXCEPT ![f] = FALSE]

\* f.reader.Ref()
RefFileReader(t) ==
    /\ At(t, "pin")
    /\ ReaderRef(tf[t])
    /\ Return(t, "none")
    /\ UNCHANGED <<fvars, avars, inMem, open, exists, inReader, evars, tf, arg, loc, panicking, trap, hvars, snap>>

\* Under f.mu.RLock(): nothing when stopped, else f.reader.Unref().
UnrefFileReader(t) ==
    /\ At(t, "unpin")
    /\ IF stopped(tf[t]) THEN UNCHANGED pin ELSE ReaderUnref(tf[t])
    /\ Return(t, "none")
    /\ UNCHANGED <<fvars, avars, inMem, open, exists, inReader, evars, tf, arg, loc, panicking, trap, hvars, snap>>

\* ------------------------------------------------------------------ reads
\* f.mu.RLock(); the stop check of the method op, if it has one; the call of the reader.
\* ReadAt() testing `segment > cm.segmentCount()` where the code tests `>=`.
Read_lockMutant(t) ==
    /\ At(t, "rd_lock")
    /\ rl' = [rl EXCEPT ![tf[t]] = @ + 1]
    /\ IF ChecksStopped(arg[t]) /\ stopped(tf[t])
       THEN /\ Goto(t, "rd_unlock")
            /\ ret' = [ret EXCEPT ![t] = "errFileClosed"]
            /\ UNCHANGED inReader
       ELSE IF arg[t] = "ReadAt" /\ (loc[t] < 0 \/ loc[t] > nseg[tf[t]])
       THEN /\ Goto(t, "rd_unlock")
            /\ ret' = [ret EXCEPT ![t] = "errSegment"]
            /\ UNCHANGED inReader
       ELSE /\ Goto(t, "rd_reader")
            /\ inReader' = [inReader EXCEPT ![tf[t]] = @ + 1]
            /\ UNCHANGED ret
    /\ UNCHANGED <<ref, flag, wg, memEle, avars, inMem, pin, open, exists, evars, cont, tf, arg, loc, panicking, trap, hvars, snap>>

Read_lock(t) ==
    /\ At(t, "rd_lock")
    /\ rl' = [rl EXCEPT ![tf[t]] = @ + 1]
    /\ IF ChecksStopped(arg[t]) /\ stopped(tf[t])
       THEN /\ Goto(t, "rd_unlock")
            /\ ret' = [ret EXCEPT ![t] = "errFileClosed"]
            /\ UNCHANGED inReader
       ELSE IF arg[t] = "ReadAt" /\ (loc[t] < 0 \/ loc[t] >= nseg[tf[t]])
       THEN /\ Goto(t, "rd_unlock")
            /\ ret' = [ret EXCEPT ![t] = "errSegment"]
            /\ UNCHANGED inReader
       ELSE /\ Goto(t, "rd_reader")
            /\ inReader' = [inReader EXCEPT ![tf[t]] = @ + 1]
            /\ UNCHANGED ret
    /\ UNCHANGED <<ref, flag, wg, memEle, avars, inMem, pin, open, exists, evars, cont, tf, arg, loc, panicking, trap, hvars, snap>>

\* The reader's method returns.
Read_reader(t) ==
    /\ At(t, "rd_reader")
    /\ inReader' = [inReader EXCEPT ![tf[t]] = @ - 1]
    /\ ret' = [ret EXCEPT ![t] = "forwarded"]
    /\ Goto(t, "rd_unlock")
    /\ UNCHANGED <<fvars, avars, inMem, pin, open, exists, evars, cont, tf, arg, loc, panicking, trap, hvars, snap>>

\* defer f.mu.RUnlock()
Read_unlock(t) ==
    /\ At(t, "rd_unlock")
    /\ rl' = [rl EXCEPT ![tf[t]] = @ - 1]
    /\ Return(t, ret[t])
    /\ UNCHANGED <<ref, flag, wg, memEle, avars, rvars, evars, tf, arg, loc, panicking, trap, hvars, snap>>

Read(t) == Read_lock(t) \/ Read_reader(t) \/ Read_unlock(t)

\* ------------------------------------------------------------------ evict registry
\* addMemSize(levelName(level), total, order, unorder)
AddMemSize(l, d) ==
    mem' = [mem EXCEPT ![l] = <<@[1] + d[1], @[2] + d[2], @[3] + d[3]>>]

\* The list without the element of file f.
ListRemove(s, f) == SelectSeq(s, LAMBDA x : x # f)

\* f.RemoveFromEvictList(level) and f.RemoveFromEvictListUnSafe(level)
RemoveFromEvictList(f) ==
    IF memEle[f]
    THEN /\ lru' = [lru EXCEPT ![level[f]] = ListRemove(@, f)]
         /\ memEle' = [memEle EXCEPT ![f] = FALSE]
    ELSE UNCHANGED <<lru, memEle>>

\* f.AddToEvictList(level), when f.memEle is nil
AddToEvictList(f) ==
    /\ lru' = [lru EXCEPT ![level[f]] = <<f>> \o @]
    /\ memEle' = [memEle EXCEPT ![f] = TRUE]

\* The arguments of addMemSize for `size` bytes of an ordered / unordered file.
RemoveDelta(ord, size) == IF ord THEN <<-size, -size, 0>> ELSE <<-size, 0, -size>>

CloseDelta(ord, size) == IF ord THEN <<-size, -size, 0>> ELSE <<-size, 0, -size>>

\* ------------------------------------------------------------------ Remove
Remove_stop(t) ==
    /\ At(t, "rm_flag")
    /\ flag' = [flag EXCEPT ![tf[t]] = @ + 1]
    /\ Goto(t, "rm_dec")
    /\ UNCHANGED <<ref, wg, rl, memEle, avars, rvars, evars, cont, tf, arg, ret, loc, panicking, trap, hvars, snap>>

Remove_add(t) ==
    /\ At(t, "rm_dec")
    /\ ref' = [ref EXCEPT ![tf[t]] = @ - 1]
    /\ IF ref[tf[t]] - 1 = 0
       THEN Goto(t, "rm_wait") /\ UNCHANGED <<cont, ret>>
       ELSE Return(t, "nil")
    /\ UNCHANGED <<flag, wg, rl, memEle, avars, rvars, evars, tf, arg, loc, panicking, trap, hvars, snap>>

Remove_wait(t) ==
    /\ At(t, "rm_wait")
    /\ wg[tf[t]] = 0
    /\ Goto(t, "rm_lock")
    /\ UNCHANGED <<fvars, avars, rvars, evars, cont, tf, arg, ret, loc, panicking, trap, hvars, snap>>

\* What fileops.Remove(name, lock) may answer.
UnlinkOutcomes(f) == IF exists[f] THEN {"ok", "fail"} ELSE {"gone", "fail"}

\* Remove() taking every answer of fileops.Remove for a success.
Remove_unlinkMutant(t) ==
    /\ At(t, "rm_lock")
    /\ rl[tf[t]] = 0
    /\ \E out \in UnlinkOutcomes(tf[t]) :
        LET f == tf[t] IN
        /\ loc' = [loc EXCEPT ![t] = ReaderInMemSize(f)]
        /\ ReaderClose(f)
        /\ exists' = [exists EXCEPT ![f] = IF out = "ok" THEN FALSE ELSE @]
        /\ unl' = [unl EXCEPT ![f] = <<@[1] + (IF out = "ok" THEN 1 ELSE 0),
                                       @[2] + (IF out = "gone" THEN 1 ELSE 0),
                                       @[3] + (IF out = "fail" THEN 1 ELSE 0)>>]
        /\ IF ReaderInMemSize(f) > 0
           THEN Goto(t, "rm_mem") /\ UNCHANGED <<cont, ret>>
           ELSE Return(t, "nil")
    /\ UNCHANGED <<fvars, avars, inMem, pin, inReader, evars, tf, arg, panicking, trap, hold, pre, nRemove, nClose, snap>>

\* The section under f.mu.Lock(): snapshot, reader.Close(), fileops.Remove.
Remove_unlink(t) ==
    /\ At(t, "rm_lock")
    /\ rl[tf[t]] = 0
    /\ \E out \in UnlinkOutcomes(tf[t]) :
        LET f == tf[t] IN
        /\ loc' = [loc EXCEPT ![t] = ReaderInMemSize(f)]
        /\ ReaderClose(f)
        /\ exists' = [exists EXCEPT ![f] = IF out = "ok" THEN FALSE ELSE @]
        /\ unl' = [unl EXCEPT ![f] = <<@[1] + (IF out = "ok" THEN 1 ELSE 0),
                                       @[2] + (IF out = "gone" THEN 1 ELSE 0),
                                       @[3] + (IF out = "fail" THEN 1 ELSE 0)>>]
        /\ IF out = "fail"
           THEN Return(t, "errRemoveFail")
           ELSE IF ReaderInMemSize(f) > 0
                THEN Goto(t, "rm_mem") /\ UNCHANGED <<cont, ret>>
                ELSE Return(t, "nil")
    /\ UNCHANGED <<fvars, avars, inMem, pin, inReader, evars, tf, arg, panicking, trap, hold, pre, nRemove, nClose, snap>>

Remove_addMemSize(t) ==
    /\ At(t, "rm_mem")
    /\ AddMemSize(level[tf[t]], RemoveDelta(order[tf[t]], loc[t]))
    /\ Goto(t, "rm_evict")
    /\ UNCHANGED <<fvars, avars, rvars, lru, gcq, cont, tf, arg, ret, loc, panicking, trap, hvars, snap>>

Remove_evict(t) ==
    /\ At(t, "rm_evict")
    /\ RemoveFromEvictList(tf[t])
    /\ Return(t, "nil")
    /\ UNCHANGED <<ref, flag, wg, rl, avars, rvars, mem, gcq, tf, arg, loc, panicking, trap, hvars, snap>>

Remove(t) ==
    \/ Remove_stop(t) \/ Remove_add(t) \/ Remove_wait(t)
    \/ Remove_unlink(t) \/ Remove_addMemSize(t) \/ Remove_evict(t)

\* ------------------------------------------------------------------ Close
Close_stop(t) ==
    /\ At(t, "cl_stop")
    /\ flag' = [flag EXCEPT ![tf[t]] = @ + 1]
    /\ Goto(t, "cl_snap")
    /\ UNCHANGED <<ref, wg, rl, memEle, avars, rvars, evars, cont, tf, arg, ret, loc, panicking, trap, hvars, snap>>

\* The section under f.mu.Lock(): memSize, level, order, name, tmp; then f.Unref() is called.
Close_snapshot(t) ==
    /\ At(t, "cl_snap")
    /\ rl[tf[t]] = 0
    /\ loc' = [loc EXCEPT ![t] = ReaderInMemSize(tf[t])]
    /\ CallSub(t, "unref_dec", "cl_wait")
    /\ UNCHANGED <<fvars, avars, rvars, evars, tf, arg, ret, panicking, trap, hvars, snap>>

Close_wait(t) ==
    /\ At(t, "cl_wait")
    /\ wg[tf[t]] = 0
    /\ Goto(t, "cl_close")
    /\ UNCHANGED <<fvars, avars, rvars, evars, cont, tf, arg, ret, loc, panicking, trap, hvars, snap>>

\* _ = f.reader.Close(), outside the lock
Close_reader(t) ==
    /\ At(t, "cl_close")
    /\ ReaderClose(tf[t])
    /\ IF loc[t] > 0 /\ ~tmp[tf[t]]
       THEN Goto(t, "cl_mem") /\ UNCHANGED <<cont, ret>>
       ELSE Return(t, "nil")
    /\ UNCHANGED <<fvars, avars, inMem, pin, exists, inReader, evars, tf, arg, loc, panicking, trap, hvars, snap>>

Close_addMemSize(t) ==
    /\ At(t, "cl_mem")
    /\ AddMemSize(level[tf[t]], CloseDelta(order[tf[t]], loc[t]))
    /\ Goto(t, "cl_evict")
    /\ UNCHANGED <<fvars, avars, rvars, lru, gcq, cont, tf, arg, ret, loc, panicking, trap, hvars, snap>>

Close_evict(t) ==
    /\ At(t, "cl_evict")
    /\ RemoveFromEvictList(tf[t])
    /\ Return(t, "nil")
    /\ UNCHANGED <<ref, flag, wg, rl, avars, rvars, mem, gcq, tf, arg, loc, panicking, trap, hvars, snap>>

Close(t) ==
    \/ Close_stop(t) \/ Close_snapshot(t) \/ Close_wait(t)
    \/ Close_reader(t) \/ Close_addMemSize(t) \/ Close_evict(t)

\* ------------------------------------------------------------------ LoadIntoMemory
\* The arguments of addMemSize for `size` bytes of an ordered / unordered file.
\* LoadIntoMemory() routing the bytes of every file to the order column.
LoadDeltaMutant(ord, size) == <<size, size, 0>>

LoadDelta(ord, size) == IF ord THEN <<size, size, 0>> ELSE <<size, 0, size>>

FreeDelta(ord, size) == IF ord THEN <<-size, -size, 0>> ELSE <<-size, 0, -size>>

\* The section under f.mu.Lock(): f.reader.LoadIntoMemory() fails, or caches the
\* data section; then size := f.reader.InMemSize(). (f.reader is never nil for a
\* file made by OpenTSSPFile.)
LoadIntoMemory_load(t) ==
    /\ At(t, "ld_lock")
    /\ rl[tf[t]] = 0
    /\ \E ok \in BOOLEAN :
        IF ok
        THEN /\ ReaderLoadIntoMemory(tf[t])
             /\ loc' = [loc EXCEPT ![t] = inMem'[tf[t]]]
             /\ Goto(t, "ld_mem")
             /\ UNCHANGED <<cont, ret>>
        ELSE /\ Return(t, "errLoad")
             /\ UNCHANGED <<inMem, loc>>
    /\ UNCHANGED <<fvars, avars, pin, open, exists, inReader, evars, tf, arg, panicking, trap, hvars, snap>>

LoadIntoMemory_addMemSize(t) ==
    /\ At(t, "ld_mem")
    /\ AddMemSize(level[tf[t]], LoadDelta(order[tf[t]], loc[t]))
    /\ Goto(t, "ld_evict")
    /\ UNCHANGED <<fvars, avars, rvars, lru, gcq, cont, tf, arg, ret, loc, panicking, trap, hvars, snap>>

\* f.AddToEvictList(level): panics when f.memEle is not nil
LoadIntoMemory_evict(t) ==
    /\ At(t, "ld_evict")
    /\ IF memEle[tf[t]]
       THEN Panic("memEle need to nil") /\ UNCHANGED <<lru, memEle, pc, cont, ret>>
       ELSE AddToEvictList(tf[t]) /\ Return(t, "nil") /\ UNCHANGED trap
    /\ UNCHANGED <<ref, flag, wg, rl, avars, rvars, mem, gcq, tf, arg, loc, panicking, hvars, snap>>

LoadIntoMemory(t) ==
    LoadIntoMemory_load(t) \/ LoadIntoMemory_addMemSize(t) \/ LoadIntoMemory_evict(t)

\* ------------------------------------------------------------------ FreeMemory, Free
\* Under f.mu.Lock(): a file in use goes to nodeTableStoreGC and 0 is returned;
\* else size := f.reader.FreeMemory() drops the cache and is returned.
\* FreeMemory() without its Inuse() test.
FreeMemoryMutant(t) ==
    /\ At(t, "fm_lock")
    /\ rl[tf[t]] = 0
    /\ loc' = [loc EXCEPT ![t] = ReaderInMemSize(tf[t])]
    /\ ReaderFreeMemory(tf[t])
    /\ Return(t, "size")
    /\ UNCHANGED <<fvars, avars, pin, open, exists, inReader, evars, tf, arg, panicking, trap, hvars, snap>>

FreeMemory(t) ==
    /\ At(t, "fm_lock")
    /\ rl[tf[t]] = 0
    /\ IF Inuse(tf[t])
       THEN /\ gcq' = gcq \cup {tf[t]}
            /\ loc' = [loc EXCEPT ![t] = 0]
            /\ UNCHANGED inMem
       ELSE /\ loc' = [loc EXCEPT ![t] = ReaderInMemSize(tf[t])]
            /\ ReaderFreeMemory(tf[t])
            /\ UNCHANGED gcq
    /\ Return(t, "size")
    /\ UNCHANGED <<fvars, avars, pin, open, exists, inReader, mem, lru, tf, arg, panicking, trap, hvars, snap>>

\* size := f.FreeMemory()
Free_call(t) ==
    /\ At(t, "fr_call")
    /\ CallSub(t, "fm_lock", "fr_mem")
    /\ UNCHANGED <<fvars, avars, rvars, evars, tf, arg, ret, loc, panicking, trap, hvars, snap>>

Free_addMemSize(t) ==
    /\ At(t, "fr_mem")
    /\ AddMemSize(level[tf[t]], FreeDelta(order[tf[t]], loc[t]))
    /\ Goto(t, "fr_evict")
    /\ UNCHANGED <<fvars, avars, rvars, lru, gcq, cont, tf, arg, ret, loc, panicking, trap, hvars, snap>>

\* RemoveFromEvictList (evictLock) or RemoveFromEvictListUnSafe: the same change of the list
Free_evict(t) ==
    /\ At(t, "fr_evict")
    /\ RemoveFromEvictList(tf[t])
    /\ Return(t, "size")
    /\ UNCHANGED <<ref, flag, wg, rl, avars, rvars, mem, gcq, tf, arg, loc, panicking, trap, hvars, snap>>

Free(t) == Free_call(t) \/ Free_addMemSize(t) \/ Free_evict(t)

\* ------------------------------------------------------------------ FileOperation
\* op == nil returns at once; else f.Ref() is called.
FileOperation_ref(t) ==
    /\ At(t, "fo_call")
    /\ IF arg[t] = "nil"
       THEN Return(t, "none")
       ELSE CallSub(t, "ref_chk", "fo_pin") /\ UNCHANGED ret
    /\ UNCHANGED <<fvars, avars, rvars, evars, tf, arg, loc, panicking, trap, hvars, snap>>

\* f.RefFileReader()
FileOperation_pin(t) ==
    /\ At(t, "fo_pin")
    /\ CallSub(t, "pin", "fo_op")
    /\ UNCHANGED <<fvars, avars, rvars, evars, tf, arg, ret, loc, panicking, trap, hvars, snap>>

\* op() returns or panics; either way the deferred function runs: f.UnrefFileReader()
FileOperation_op(t) ==
    /\ At(t, "fo_op")
    /\ panicking' = [panicking EXCEPT ![t] = (arg[t] = "panic")]
    /\ CallSub(t, "unpin", "fo_unref")
    /\ UNCHANGED <<fvars, avars, rvars, evars, tf, arg, ret, loc, trap, hvars, snap>>

\* f.Unref(), the second deferred call
FileOperation_unref(t) ==
    /\ At(t, "fo_unref")
    /\ CallSub(t, "unref_dec", "fo_ret")
    /\ UNCHANGED <<fvars, avars, rvars, evars, tf, arg, ret, loc, panicking, trap, hvars, snap>>

\* The deferred function is done: FileOperation returns, or the panic of op goes on.
FileOperation_return(t) ==
    /\ At(t, "fo_ret")
    /\ IF panicking[t]
       THEN Panic("op") /\ UNCHANGED <<pc, cont, ret>>
       ELSE Return(t, "none") /\ UNCHANGED trap
    /\ UNCHANGED <<fvars, avars, rvars, evars, tf, arg, loc, panicking, hvars, snap>>

FileOperation(t) ==
    \/ FileOperation_ref(t) \/ FileOperation_pin(t) \/ FileOperation_op(t)
    \/ FileOperation_unref(t) \/ FileOperation_return(t)

\* ------------------------------------------------------------------ calls
CallRef(t, f) ==
    /\ Enter(t, f, "ref_chk", "none")
    /\ UNCHANGED <<fvars, avars, rvars, evars, trap, hvars>>

CallUnref(t, f) ==
    /\ Enter(t, f, "unref_dec", "none")
    /\ UNCHANGED <<fvars, avars, rvars, evars, trap, hvars>>

CallStop(t, f) ==
    /\ flag[f] < MaxFlag
    /\ Enter(t, f, "stop", "none")
    /\ UNCHANGED <<fvars, avars, rvars, evars, trap, hvars>>

CallRead(t, f, op) ==
    /\ Enter(t, f, "rd_lock", op)
    /\ UNCHANGED <<fvars, avars, rvars, evars, trap, hvars>>

\* Who holds a real ref of the file a Close or Remove is called on.
Holders == {u \in Threads : hold[u] = "real"}

CallRemove(t, f) ==
    /\ flag[f] < MaxFlag
    /\ Enter(t, f, "rm_flag", "none")
    /\ nRemove' = [nRemove EXCEPT ![f] = @ + 1]
    /\ pre' = [pre EXCEPT ![t] = Holders]
    /\ UNCHANGED <<fvars, avars, rvars, evars, trap, hold, nClose, unl>>

CallClose(t, f) ==
    /\ flag[f] < MaxFlag
    /\ Enter(t, f, "cl_stop", "none")
    /\ nClose' = [nClose EXCEPT ![f] = @ + 1]
    /\ pre' = [pre EXCEPT ![t] = Holders]
    /\ UNCHANGED <<fvars, avars, rvars, evars, trap, hold, nRemove, unl>>

\* ------------------------------------------------------------------ Spec
Readers == {"t1", "t2"}             \* goroutines of queries
Owner   == "t3"                     \* the goroutine of the owning set / the compactor

\* Readers follow the protocol of the callers: Ref(), reads, Unref().
\* ReadAt(cm, segment, ...): loc is the segment index.
CallReadAt(t, f, segment) ==
    /\ trap = "none"
    /\ pc[t] = "idle"
    /\ pc' = [pc EXCEPT ![t] = "rd_lock"]
    /\ tf' = [tf EXCEPT ![t] = f]
    /\ arg' = [arg EXCEPT ![t] = "ReadAt"]
    /\ ret' = [ret EXCEPT ![t] = "none"]
    /\ loc' = [loc EXCEPT ![t] = segment]
    /\ UNCHANGED <<fvars, avars, rvars, evars, cont, panicking, trap, hvars>>

ReaderCalls(t) ==
    \/ hold[t] = "none" /\ ref[ConcFile] + MaxUnder > 0 /\ CallRef(t, ConcFile)
    \/ hold[t] # "none" /\ CallUnref(t, ConcFile)
    \/ hold[t] # "none" /\ \E op \in {"ReadData", "ReadDataBlock"} : CallRead(t, ConcFile, op)

OwnerCalls(t) ==
    \/ CallStop(t, ConcFile)
    \/ CallRemove(t, ConcFile)
    \/ CallClose(t, ConcFile)

Next ==
    \/ \E t \in Readers : ReaderCalls(t) /\ UNCHANGED snap
    \/ OwnerCalls(Owner) /\ UNCHANGED snap
    \/ \E t \in Threads : Ref(t) \/ Unref(t) \/ Stop(t) \/ Read(t) \/ Remove(t) \/ Close(t) \/ Leave(t)

Spec == Init /\ [][Next]_vars

\* ------------------------------------------------------------------ SpecSeq
\* The state a call of method op on file f starts in.
TakeSnap(f, op) ==
    [op |-> op, f |-> f, ref |-> ref[f], wg |-> wg[f], pin |-> pin[f], stopped |-> stopped(f)]

ReadAtSnap(f, segment) ==
    [op |-> "ReadAtSeg", f |-> f, stopped |-> stopped(f), segment |-> segment,
     inReader |-> inReader[f]]

CallPin(t, f) ==
    /\ Enter(t, f, "pin", "none")
    /\ UNCHANGED <<fvars, avars, rvars, evars, trap, hvars>>

CallUnpin(t, f) ==
    /\ Enter(t, f, "unpin", "none")
    /\ UNCHANGED <<fvars, avars, rvars, evars, trap, hvars>>

CallFileOperation(t, f, op) ==
    /\ Enter(t, f, "fo_call", op)
    /\ UNCHANGED <<fvars, avars, rvars, evars, trap, hvars>>

CallLoadIntoMemory(t, f) ==
    /\ Enter(t, f, "ld_lock", "none")
    /\ UNCHANGED <<fvars, avars, rvars, evars, trap, hvars>>

CallFreeMemory(t, f) ==
    /\ Enter(t, f, "fm_lock", "none")
    /\ UNCHANGED <<fvars, avars, rvars, evars, trap, hvars>>

\* Free(evictLock): the two values differ in who locks the list, not in what changes.
CallFree(t, f) ==
    /\ Enter(t, f, "fr_call", "none")
    /\ UNCHANGED <<fvars, avars, rvars, evars, trap, hvars>>

\* One caller, one file, every method of the life cycle in any order: also an
\* Unref() that no Ref() preceded.
SeqCalls(f) ==
    \/ ref[f] < MaxRef /\ CallRef(Caller, f) /\ snap' = TakeSnap(f, "Ref")
    \/ ref[f] + MaxUnder > 0 /\ CallUnref(Caller, f) /\ snap' = TakeSnap(f, "Unref")
    \/ CallStop(Caller, f) /\ snap' = TakeSnap(f, "Stop")
    \/ CallRemove(Caller, f) /\ snap' = TakeSnap(f, "Remove")
    \/ CallClose(Caller, f) /\ snap' = TakeSnap(f, "Close")
    \/ \E op \in ReadOps : CallRead(Caller, f, op) /\ snap' = TakeSnap(f, op)
    \/ \E g \in -1..MaxSeg : CallReadAt(Caller, f, g) /\ snap' = ReadAtSnap(f, g)
    \/ pin[f] < MaxPin /\ CallPin(Caller, f) /\ snap' = TakeSnap(f, "RefFileReader")
    \/ pin[f] > 0 /\ CallUnpin(Caller, f) /\ snap' = TakeSnap(f, "UnrefFileReader")
    \/ /\ pin[f] < MaxPin /\ ref[f] + MaxUnder > 0
       /\ \E op \in {"nil", "ok", "panic"} : CallFileOperation(Caller, f, op)
       /\ snap' = TakeSnap(f, "FileOperation")

NextSeq ==
    \/ SeqCalls(ConcFile)
    \/ Ref(Caller) \/ Unref(Caller) \/ Stop(Caller) \/ Read(Caller)
    \/ Remove(Caller) \/ Close(Caller)
    \/ RefFileReader(Caller) \/ UnrefFileReader(Caller) \/ FileOperation(Caller)
    \/ Leave(Caller)

SpecSeq == Init /\ [][NextSeq]_vars

\* ------------------------------------------------------------------ SpecMem
MainFile  == "f1"       \* loaded, freed, referenced, closed and removed
Bystander == "f2"       \* another file, only loaded and freed

\* Two files: the main file of level 0 with any order class, suffix and data
\* size, and a bystander file of either level.
InitMem ==
    /\ InitFiles
    /\ level \in [Files -> Levels]
    /\ level[MainFile] = 0
    /\ order \in [Files -> BOOLEAN]
    /\ order[Bystander] = FALSE
    /\ tmp \in [Files -> BOOLEAN]
    /\ tmp[Bystander] = FALSE
    /\ dsize \in [Files -> 0..MaxSize]
    /\ dsize[Bystander] = 1
    /\ nseg = [f \in Files |-> MaxSeg]
    /\ NoSet
    /\ NoGroups
    /\ Unloaded

\* The state a LoadIntoMemory or a Free of file f starts in; for a Free that follows
\* a successful LoadIntoMemory of f, also the counters before that load.
MemSnap(f, op) ==
    [op |-> op, f |-> f, inuse |-> Inuse(f), inMem |-> inMem[f], mem |-> mem[level[f]],
     ref |-> ref[f], unl |-> unl[f], memEle |-> memEle[f], lru |-> lru[level[f]],
     follows |-> snap.op = "loaded" /\ snap.f = f,
     mem0 |-> IF snap.op = "loaded" /\ snap.f = f THEN snap.mem ELSE mem[level[f]]]

LoadFreeCalls(f) ==
    \/ /\ mem[level[f]][1] <= MaxMem
       /\ CallLoadIntoMemory(Caller, f) /\ snap' = MemSnap(f, "LoadIntoMemory")
    \/ CallFree(Caller, f) /\ snap' = MemSnap(f, "Free")

\* One caller loading and freeing both files, and taking and releasing a ref of,
\* closing and removing the main file.
MemCalls(f) ==
    \/ ~Inuse(f) /\ ~stopped(f) /\ CallRef(Caller, f) /\ snap' = NoSnap
    \/ hold[Caller] # "none" /\ CallUnref(Caller, f) /\ snap' = NoSnap
    \/ CallRemove(Caller, f) /\ snap' = MemSnap(f, "Remove")
    \/ CallClose(Caller, f) /\ snap' = MemSnap(f, "Close")

NextMem ==
    \/ \E f \in Files : LoadFreeCalls(f)
    \/ MemCalls(MainFile)
    \/ LoadIntoMemory(Caller) \/ FreeMemory(Caller) \/ Free(Caller)
    \/ Ref(Caller) \/ Unref(Caller) \/ Remove(Caller) \/ Close(Caller)
    \/ Leave(Caller)

SpecMem == InitMem /\ [][NextMem]_vars

\* The state a direct call of FreeMemory() on file f starts in.
FreeMemSnap(f) ==
    [op |-> "FreeMemory", f |-> f, inuse |-> Inuse(f), inMem |-> inMem[f],
     memEle |-> memEle[f], lru |-> lru[level[f]], gcq |-> gcq]

\* The same caller, who also calls FreeMemory() directly.
NextMemFM ==
    \/ NextMem
    \/ \E f \in Files : CallFreeMemory(Caller, f) /\ snap' = FreeMemSnap(f)

SpecMemFM == InitMem /\ [][NextMemFM]_vars

\* The path of file f is removed by something else than Remove(): fileops.Remove
\* will then report that the file does not exist.
EnvUnlink(f) ==
    /\ trap = "none"
    /\ exists[f]
    /\ exists' = [exists EXCEPT ![f] = FALSE]
    /\ UNCHANGED <<fvars, avars, inMem, pin, open, inReader, evars, tvars, trap, hvars, snap>>

\* The caller of SpecMem, and the path of the main file vanishing at any time.
NextRm ==
    \/ NextMem
    \/ EnvUnlink(MainFile)

SpecRm == InitMem /\ [][NextRm]_vars

\* One caller loading, freeing and stopping the main file, calling FreeMemory() on
\* it and taking and releasing a ref of it.
NextFM ==
    \/ LoadFreeCalls(MainFile)
    \/ CallFreeMemory(Caller, MainFile) /\ snap' = FreeMemSnap(MainFile)
    \/ /\ ~Inuse(MainFile) /\ ref[MainFile] + MaxUnder > 0
       /\ CallRef(Caller, MainFile) /\ snap' = NoSnap
    \/ hold[Caller] # "none" /\ CallUnref(Caller, MainFile) /\ snap' = NoSnap
    \/ CallStop(Caller, MainFile) /\ snap' = NoSnap
    \/ LoadIntoMemory(Caller) \/ FreeMemory(Caller) \/ Free(Caller)
    \/ Ref(Caller) \/ Unref(Caller) \/ Stop(Caller)
    \/ Leave(Caller)

SpecFM == InitMem /\ [][NextFM]_vars

\* ------------------------------------------------------------------ the file set
\* TSSPFiles. A file of the set is written as its name <<level, seq, merge, extent>>,
\* which is also its path; no two files have the same name.
Seqs == {1, 2}
Exts == {0, 1}
Pool == {<<l, q, (l + q + e) % 2, e>> : l \in Levels, q \in Seqs, e \in Exts}

\* tsspFile.Path(): the empty path when the file is stopped.
Path(f) == IF sflag[f] > 0 THEN <<>> ELSE f

\* tsspFile.LevelAndSequence() and FileNameExtend()
LevelAndSequence(f) == <<f[1], f[2]>>

FileNameExtend(f) == f[4]

\* The slice fs as Go indexes it, from 0.
At0(fs, i) == fs[i + 1]

\* fullCompacted() comparing the level of the files only.
fullCompactedMutant(fs) ==
    IF Len(fs) <= 1 THEN TRUE
    ELSE \A i \in 1..(Len(fs) - 1) :
            LevelAndSequence(At0(fs, i))[1] = LevelAndSequence(At0(fs, 0))[1]

fullCompacted(fs) ==
    IF Len(fs) <= 1 THEN TRUE
    ELSE \A i \in 1..(Len(fs) - 1) : LevelAndSequence(At0(fs, i)) = LevelAndSequence(At0(fs, 0))

\* Less() comparing the level before the sequence.
LessMutant(fs, i, j) ==
    IF At0(fs, i)[1] # At0(fs, j)[1] THEN At0(fs, i)[1] < At0(fs, j)[1]
    ELSE At0(fs, i)[2] < At0(fs, j)[2]

Less(fs, i, j) ==
    LET iSeq == LevelAndSequence(At0(fs, i))[2]
        jSeq == LevelAndSequence(At0(fs, j))[2]
    IN  IF iSeq # jSeq THEN iSeq < jSeq
        ELSE FileNameExtend(At0(fs, i)) < FileNameExtend(At0(fs, j))

\* The loop `for left < right` of fileIndex: <<idx, left>> when it ends.
RECURSIVE fileIndexSearch(_, _, _, _)
fileIndexSearch(fs, seq, left, right) ==
    IF left < right
    THEN LET mid == (left + right) \div 2
             n == LevelAndSequence(At0(fs, mid))[2]
         IN  IF seq = n THEN <<mid, left>>
             ELSE IF seq < n THEN fileIndexSearch(fs, seq, left, mid)
             ELSE fileIndexSearch(fs, seq, mid + 1, right)
    ELSE <<-1, left>>

\* The loop `for i := idx; i >= 0; i--` of fileIndex: the index found, or -1.
RECURSIVE fileIndexDown(_, _, _)
fileIndexDown(fs, tbl, i) ==
    IF i < 0 THEN -1
    ELSE IF LevelAndSequence(At0(fs, i))[2] # LevelAndSequence(tbl)[2] THEN -1
    ELSE IF Path(At0(fs, i)) = Path(tbl) THEN i
    ELSE fileIndexDown(fs, tbl, i - 1)

\* The loop `for i := idx + 1; i < f.Len(); i++` of fileIndex.
RECURSIVE fileIndexUp(_, _, _)
fileIndexUp(fs, tbl, i) ==
    IF i >= Len(fs) THEN -1
    ELSE IF LevelAndSequence(At0(fs, i))[2] # LevelAndSequence(tbl)[2] THEN -1
    ELSE IF Path(At0(fs, i)) = Path(tbl) THEN i
    ELSE fileIndexUp(fs, tbl, i + 1)

fileIndex(fs, tbl) ==
    IF Len(fs) = 0 THEN -1
    ELSE LET found == fileIndexSearch(fs, LevelAndSequence(tbl)[2], 0, Len(fs) - 1)
             idx == found[1]
             left == found[2]
             down == IF idx # -1 THEN fileIndexDown(fs, tbl, idx) ELSE -1
             up == IF idx # -1 /\ down = -1 THEN fileIndexUp(fs, tbl, idx + 1) ELSE -1
         IN  IF down # -1 THEN down
             ELSE IF up # -1 THEN up
             ELSE IF Path(At0(fs, left)) = Path(tbl) THEN left
             ELSE -1

\* append(f.files[:idx], f.files[idx+1:]...)
DeleteAt(fs, idx) == [i \in 1..(Len(fs) - 1) |-> IF i <= idx THEN fs[i] ELSE fs[i + 1]]

InSet(fs, f) == \E i \in 1..Len(fs) : fs[i] = f

\* What sort.Sort may leave: the same files, no later one Less than an earlier one.
SortedBy(fs) ==
    {p \in [1..Len(fs) -> {fs[i] : i \in 1..Len(fs)}] :
        /\ \A i \in 1..Len(fs) : InSet(p, fs[i])
        /\ \A i, j \in 0..(Len(fs) - 1) : i < j => ~Less(p, j, i)}

\* Everything but the file set and the trap.
tsspvars == <<fvars, level, order, tmp, dsize, nseg, gvars, rvars, evars, tvars, hvars, snap>>

\* The set as a call finds it.
SetCall(op, f, r) ==
    [op |-> op, f |-> f, ret |-> r, files |-> files, closing |-> closing, sflag |-> sflag]

AppendFile(f) ==
    /\ trap = "none"
    /\ Len(files) < MaxLen
    /\ ~InSet(files, f)
    /\ files' = Append(files, f)
    /\ scall' = SetCall("Append", f, 0)
    /\ UNCHANGED <<closing, sflag, trap, tsspvars>>

\* sort.Sort(f)
SortFiles ==
    /\ trap = "none"
    /\ files' \in SortedBy(files)
    /\ scall' = SetCall("Sort", <<>>, 0)
    /\ UNCHANGED <<closing, sflag, trap, tsspvars>>

Call_fullCompacted ==
    /\ trap = "none"
    /\ scall' = SetCall("fullCompacted", <<>>, fullCompacted(files))
    /\ UNCHANGED <<files, closing, sflag, trap, tsspvars>>

Call_fileIndex(f) ==
    /\ trap = "none"
    /\ scall' = SetCall("fileIndex", f, fileIndex(files, f))
    /\ UNCHANGED <<files, closing, sflag, trap, tsspvars>>

deleteFile(f) ==
    /\ trap = "none"
    /\ LET idx == fileIndex(files, f) IN
       /\ scall' = SetCall("deleteFile", f, idx)
       /\ IF idx < 0 \/ idx >= Len(files)
          THEN Panic("file not file") /\ UNCHANGED files
          ELSE files' = DeleteAt(files, idx) /\ UNCHANGED trap
    /\ UNCHANGED <<closing, sflag, tsspvars>>

\* StopFiles() leaving the last file of the set alone.
StopFilesMutant ==
    /\ trap = "none"
    /\ closing < MaxClosing
    /\ closing' = closing + 1
    /\ sflag' = [f \in Pool |-> IF InSet(SubSeq(files, 1, Len(files) - 1), f)
                                THEN sflag[f] + 1 ELSE sflag[f]]
    /\ scall' = SetCall("StopFiles", <<>>, 0)
    /\ UNCHANGED <<files, trap, tsspvars>>

StopFiles ==
    /\ trap = "none"
    /\ closing < MaxClosing
    /\ closing' = closing + 1
    /\ sflag' = [f \in Pool |-> IF InSet(files, f) THEN sflag[f] + 1 ELSE sflag[f]]
    /\ scall' = SetCall("StopFiles", <<>>, 0)
    /\ UNCHANGED <<files, trap, tsspvars>>

\* NewTSSPFiles(), and files that are not stopped.
InitSet ==
    /\ InitFiles
    /\ level = [f \in Files |-> 0]
    /\ order = [f \in Files |-> TRUE]
    /\ tmp = [f \in Files |-> FALSE]
    /\ dsize = [f \in Files |-> MaxSize]
    /\ nseg = [f \in Files |-> MaxSeg]
    /\ Unloaded
    /\ NoGroups
    /\ files = <<>>
    /\ closing = 0
    /\ sflag = [f \in Pool |-> 0]
    /\ scall = NoSnap

\* A set of files that are never stopped.
NextSet ==
    \/ \E f \in Pool : AppendFile(f) \/ Call_fileIndex(f) \/ deleteFile(f)
    \/ SortFiles
    \/ Call_fullCompacted

SpecSet == InitSet /\ [][NextSet]_vars

\* A set of files of level 0, and StopFiles().
StopPool == {f \in Pool : f[1] = 0}

NextSetStop ==
    \/ \E f \in StopPool : AppendFile(f) \/ Call_fileIndex(f) \/ deleteFile(f)
    \/ SortFiles
    \/ StopFiles

SpecSetStop == InitSet /\ [][NextSetStop]_vars


\* ------------------------------------------------------------------ CompactGroup
\* A CompactGroup: its fields, with the slice `group` written as its length and
\* its backing array of GroupCap strings.
GroupNames == {"m1", "m2"}

\* compactGroupPool.New
NewGroup == [name |-> "", shardId |-> 0, toLevel |-> 0, len |-> 0,
             arr |-> [i \in 1..GroupCap |-> ""], dropping |-> "nil"]

\* g.group: the entries of the slice
GroupList(g) == SubSeq(g.arr, 1, g.len)

othervars == <<fvars, level, order, tmp, dsize, nseg, svars, rvars, evars, tvars, hvars, snap>>

\* NewCompactGroup(name, toLevel, count): compactGroupPool.Get() hands out a pooled
\* group or a new one; g.group[:count] panics when count exceeds the capacity.
NewCompactGroup(name, toLevel, count) ==
    /\ trap = "none"
    /\ cg = NoGroup
    /\ \E g \in cgpool \cup {NewGroup} :
        /\ cgpool' = cgpool \ {g}
        /\ gcall' = [op |-> "NewCompactGroup", name |-> name, toLevel |-> toLevel,
                     count |-> count, pooled |-> g \in cgpool]
        /\ IF count > GroupCap
           THEN /\ Panic("slice bounds out of range")
                /\ cg' = [g EXCEPT !.name = name, !.toLevel = toLevel]
           ELSE /\ cg' = [g EXCEPT !.name = name, !.toLevel = toLevel, !.len = count]
                /\ UNCHANGED trap
    /\ UNCHANGED othervars

\* The compaction fills the group: the shard, the drop flag and a path in every
\* entry of the list.
FillGroup ==
    /\ trap = "none"
    /\ cg # NoGroup
    /\ cg.shardId = 0
    /\ cg' = [cg EXCEPT !.shardId = 1, !.dropping = "flag",
                        !.arr = [i \in 1..GroupCap |-> IF i <= cg.len THEN "path" ELSE cg.arr[i]]]
    /\ gcall' = [op |-> "fill"]
    /\ UNCHANGED <<cgpool, trap, othervars>>

\* g.reset()
reset(g) == [g EXCEPT !.name = "", !.shardId = 0, !.toLevel = 0, !.len = 0, !.dropping = "nil"]

\* g.release(): reset, then compactGroupPool.Put(g); the pool may drop the group.
release ==
    /\ trap = "none"
    /\ cg # NoGroup
    /\ \/ Cardinality(cgpool) < MaxPool /\ cgpool' = cgpool \cup {reset(cg)}
       \/ cgpool' = cgpool
    /\ cg' = NoGroup
    /\ gcall' = [op |-> "release", g |-> reset(cg)]
    /\ UNCHANGED <<trap, othervars>>

NextGroup ==
    \/ \E name \in GroupNames, toLevel \in Levels, count \in 0..(GroupCap + 1) :
          NewCompactGroup(name, toLevel, count)
    \/ FillGroup
    \/ release

SpecGroup == InitSet /\ [][NextGroup]_vars

\* ------------------------------------------------------------------ SpecMemConc
\* A goroutine loading and freeing the main file and taking and releasing a ref of
\* it, while the owner closes and removes it.
MemStep(t) ==
    \/ LoadIntoMemory(t) \/ FreeMemory(t) \/ Free(t)
    \/ Ref(t) \/ Unref(t) \/ Remove(t) \/ Close(t)
    \/ Leave(t)

NextMemConc ==
    \/ /\ mem[level[MainFile]][1] <= MaxMem
       /\ CallLoadIntoMemory(Caller, MainFile) /\ UNCHANGED snap
    \/ CallFree(Caller, MainFile) /\ UNCHANGED snap
    \/ /\ hold[Caller] = "none" /\ ref[MainFile] + MaxUnder > 0
       /\ CallRef(Caller, MainFile) /\ UNCHANGED snap
    \/ hold[Caller] # "none" /\ CallUnref(Caller, MainFile) /\ UNCHANGED snap
    \/ CallRemove(Owner, MainFile) /\ UNCHANGED snap
    \/ CallClose(Owner, MainFile) /\ UNCHANGED snap
    \/ \E t \in {Caller, Owner} : MemStep(t)

SpecMemConc == InitMem /\ [][NextMemConc]_vars

\* One query goroutine and the owner, every goroutine being scheduled again and
\* again, and the query goroutine calling the Unref() of a Ref() it made.
LiveReader == "t1"

Step(t) == Ref(t) \/ Unref(t) \/ Stop(t) \/ Read(t) \/ Remove(t) \/ Close(t) \/ Leave(t)

ReleaseRef(t) == hold[t] # "none" /\ CallUnref(t, ConcFile) /\ UNCHANGED snap

NextLive ==
    \/ ReaderCalls(LiveReader) /\ UNCHANGED snap
    \/ OwnerCalls(Owner) /\ UNCHANGED snap
    \/ \E t \in {LiveReader, Owner} : Step(t)

SpecLive ==
    /\ Init
    /\ [][NextLive]_vars
    /\ \A t \in {LiveReader, Owner} : WF_vars(Step(t))
    /\ SF_vars(ReleaseRef(LiveReader))
\* ------------------------------------------------------------------ claims
Idle(t) == pc[t] = "idle" /\ hold[t] = "none"

\* The call of the one caller of SpecSeq / SpecMem has returned.
Returned == trap = "none" /\ pc[Caller] = "done"

\* C1: with readers that Ref/Unref and one Remove() (no Stop, no Close), the path
\* exists as long as a reader holds a ref taken before Remove() was called, and it
\* no longer exists once Remove() has returned and the last holder has called
\* Unref(). (Checked under Spec; a failed unlink is left out.)
C1_UnlinkedWhenLastRefReleased ==
    (nRemove[ConcFile] = 1 /\ nClose[ConcFile] = 0 /\ flag[ConcFile] = 1 /\ trap = "none")
    => /\ pre[Owner] # {} => exists[ConcFile]
       /\ (/\ pc[Owner] \in {"done", "idle"}
           /\ \A r \in Readers : Idle(r)
           /\ unl[ConcFile][3] = 0)
          => ~exists[ConcFile]

\* C2: in every reachable state, "the file was unlinked by Remove()" implies that no
\* reader holds an outstanding ref and no read is executing inside the reader.
\* (Checked under Spec.)
C2_NoUnlinkWhileReferenced ==
    unl[ConcFile][1] > 0
    => /\ \A t \in Threads : hold[t] # "real"
       /\ inReader[ConcFile] = 0

\* C3: a read method called on a stopped file returns errFileClosed without calling
\* the reader; called on a file that is not stopped it is forwarded to the reader.
\* (Checked under SpecSeq.)
C3_StoppedReadsFail ==
    (Returned /\ snap.op \in ReadOps)
    => ret[Caller] = (IF snap.stopped THEN "errFileClosed" ELSE "forwarded")

\* C4: once the one Close() of a file has closed the reader, every ref that was
\* held when Close() was called has been released. (Checked under Spec.)
C4_CloseWaitsForReaders ==
    (nClose[ConcFile] = 1 /\ nRemove[ConcFile] = 0 /\ ~open[ConcFile])
    => pre[Owner] = {}

\* C5: when FileOperation(f, op) has returned, or has let the panic of op go on,
\* the ref count of the file and the pin count of the reader are what they were
\* when it was called, whether the file was stopped or not; with op == nil too.
\* (Checked under SpecSeq.)
C5_FileOperationBalanced ==
    (/\ snap.op = "FileOperation"
     /\ \/ Returned
        \/ trap = "op" /\ pc[Caller] = "fo_ret")
    => /\ ref[snap.f] = snap.ref
       /\ pin[snap.f] = snap.pin

\* C6: Ref() on a stopped file changes neither the ref counter nor the wait-group;
\* Ref() on a file that is not stopped adds exactly 1 to each. (Checked under SpecSeq.)
C6_RefFrame ==
    (Returned /\ snap.op = "Ref")
    => IF snap.stopped
       THEN ref[snap.f] = snap.ref /\ wg[snap.f] = snap.wg
       ELSE ref[snap.f] = snap.ref + 1 /\ wg[snap.f] = snap.wg + 1

\* A Ref() called on a stopped file has returned.
C6_Witness == Returned /\ snap.op = "Ref" /\ snap.stopped /\ ref[snap.f] = snap.ref

\* C7: an Unref() whose decrement brings the ref counter to zero or below while the
\* file is not stopped panics with "file closed"; an Unref() whose decrement leaves
\* the counter at 1 or more goes on to its wg.Done() and does not trap there.
\* (Checked under Spec: the Unref() calls of the readers and of Close().)
C7_UnrefTrap ==
    \A t \in Threads :
        /\ (pc[t] = "unref_chk" /\ trap # "none") => trap = "file closed"
        /\ pc[t] = "unref_done" => trap = "none"

\* The caller of SpecMem is between two calls.
Quiet == trap = "none" /\ pc[Caller] = "idle"

RECURSIVE SumInMem(_)
SumInMem(q) == IF q = <<>> THEN 0 ELSE inMem[Head(q)] + SumInMem(Tail(q))

\* C8: between the calls of any sequence of LoadIntoMemory, Free, Close and Remove
\* (Free on a file in use included), the total_bytes counter of every level is the
\* sum of the in-memory sizes of the files on the LRU list of the level.
\* (Checked under SpecMem.)
C8_TotalIsSumOverLru ==
    Quiet => \A l \in Levels : mem[l][1] = SumInMem(lru[l])

\* C9: between the calls of any sequence of LoadIntoMemory, FreeMemory, Free, Close
\* and Remove, a file has an in-memory size above zero exactly when it has an LRU
\* token. (Checked under SpecMemFM.)
C9_SizeIffToken ==
    Quiet => \A f \in Files : (inMem[f] > 0) <=> memEle[f]

OnLru(f) == \E i \in 1..Len(lru[level[f]]) : lru[level[f]][i] = f

Plus(m, d) == <<m[1] + d[1], m[2] + d[2], m[3] + d[3]>>

\* C10: a LoadIntoMemory that returns nil for a file caching s bytes has added
\* (s, s, 0) to the (total, order, unorder) counters of the level of the file if the
\* file is ordered and (s, 0, s) if it is not, and the file is on the LRU list of
\* the level; a Free(true) of a file that is not in use returns its in-memory size s,
\* takes (s, s, 0) resp. (s, 0, s) from the counters and leaves the file off the LRU
\* list, and if it follows the load the counters are those from before the load;
\* and total = order + unorder on every level, always. (Checked under SpecMem.)
C10_LoadFreeCounters ==
    /\ (Returned /\ snap.op = "LoadIntoMemory" /\ ret[Caller] = "nil")
       => /\ inMem[snap.f] = dsize[snap.f]
          /\ mem[level[snap.f]] =
                Plus(snap.mem, IF order[snap.f] THEN <<inMem[snap.f], inMem[snap.f], 0>>
                                                ELSE <<inMem[snap.f], 0, inMem[snap.f]>>)
          /\ memEle[snap.f] /\ OnLru(snap.f)
    /\ (Returned /\ snap.op = "Free" /\ ~snap.inuse)
       => /\ loc[Caller] = snap.inMem
          /\ mem[level[snap.f]] =
                Plus(snap.mem, IF order[snap.f] THEN <<-snap.inMem, -snap.inMem, 0>>
                                                ELSE <<-snap.inMem, 0, -snap.inMem>>)
          /\ ~memEle[snap.f] /\ ~OnLru(snap.f)
          /\ snap.follows => mem[level[snap.f]] = snap.mem0
    /\ \A l \in Levels : mem[l][1] = mem[l][2] + mem[l][3]

\* A Free(true) that follows the load of an unordered file of more than zero bytes
\* has returned.
C10_Witness ==
    /\ Returned /\ snap.op = "Free" /\ ~snap.inuse /\ snap.follows
    /\ ~order[snap.f] /\ snap.inMem > 0
    /\ loc[Caller] = snap.inMem /\ mem[level[snap.f]] = snap.mem0

\* C11: a direct FreeMemory() on a file in use (ref > 1) returns 0, puts the file on
\* the queue of the background GC and leaves the cached size, the LRU token and the
\* LRU list of the level as they were; on a file not in use it returns the size
\* the cache had and leaves the cache empty. (Checked under SpecFM.)
C11_FreeMemoryFrame ==
    (Returned /\ snap.op = "FreeMemory")
    => IF snap.inuse
       THEN /\ loc[Caller] = 0
            /\ gcq = snap.gcq \cup {snap.f}
            /\ inMem[snap.f] = snap.inMem
            /\ memEle[snap.f] = snap.memEle
            /\ lru[level[snap.f]] = snap.lru
       ELSE /\ loc[Caller] = snap.inMem
            /\ inMem[snap.f] = 0
            /\ gcq = snap.gcq

\* A direct FreeMemory() on a loaded file in use has returned 0.
C11_Witness ==
    /\ Returned /\ snap.op = "FreeMemory" /\ snap.inuse /\ snap.inMem > 0
    /\ loc[Caller] = 0 /\ snap.f \in gcq /\ inMem[snap.f] = snap.inMem

\* C12: the bytes of a load are taken from the counters of the level at most once,
\* whatever the sequence of LoadIntoMemory, Free, Close and Remove, so that no
\* counter falls below zero; and a Close() takes the in-memory size it found from
\* the counters if that size is above zero and the file is no temp file, and
\* leaves the counters alone otherwise. (Checked under SpecMem.)
C12_SubtractedOnce ==
    /\ \A l \in Levels : mem[l][1] >= 0 /\ mem[l][2] >= 0 /\ mem[l][3] >= 0
    /\ (Returned /\ snap.op = "Close")
       => mem[level[snap.f]] =
            IF snap.inMem > 0 /\ ~tmp[snap.f]
            THEN Plus(snap.mem, IF order[snap.f] THEN <<-snap.inMem, -snap.inMem, 0>>
                                                 ELSE <<-snap.inMem, 0, -snap.inMem>>)
            ELSE snap.mem

\* C13: a Remove() that brought ref to zero returns nil if the unlink succeeded or
\* found no file, and then the reader is closed, the in-memory size the file had is
\* taken from the counters of its level and the file is off the LRU list with no
\* token left; if the unlink failed otherwise it returns that error.
\* (Checked under SpecRm.)
C13_RemoveOutcome ==
    (Returned /\ snap.op = "Remove" /\ snap.ref = 1)
    => LET f == snap.f IN
       /\ unl[f][3] > snap.unl[3] => ret[Caller] = "errRemoveFail"
       /\ (unl[f][1] > snap.unl[1] \/ unl[f][2] > snap.unl[2])
          => /\ ret[Caller] = "nil"
             /\ ~open[f] /\ ~exists[f]
             /\ mem[level[f]] =
                    Plus(snap.mem, IF order[f] THEN <<-snap.inMem, -snap.inMem, 0>>
                                               ELSE <<-snap.inMem, 0, -snap.inMem>>)
             /\ ~memEle[f] /\ ~OnLru(f)

\* C17: ReadAt(cm, segment, ...) on a stopped file returns errFileClosed whatever the
\* segment index; on a file that is not stopped it returns an error without
\* panicking and without calling the reader if segment < 0 or segment >= the
\* segment count of the chunk, and is forwarded to the reader otherwise.
\* (Checked under SpecSeq; a call that has taken the lock and is not in the reader
\* will not enter it.)
C17_ReadAtRange ==
    snap.op = "ReadAtSeg"
    => /\ trap = "none"
       /\ pc[Caller] \in {"rd_unlock", "done"}
          => ret[Caller] =
                IF snap.stopped THEN "errFileClosed"
                ELSE IF snap.segment < 0 \/ snap.segment >= nseg[snap.f] THEN "errSegment"
                ELSE "forwarded"
       /\ pc[Caller] = "rd_reader"
          => ~snap.stopped /\ snap.segment >= 0 /\ snap.segment < nseg[snap.f]

\* A ReadAt with the segment index equal to the segment count has returned the
\* range error on a file that is not stopped.
C17_Witness ==
    /\ Returned /\ snap.op = "ReadAtSeg" /\ ~snap.stopped
    /\ snap.segment = nseg[snap.f] /\ ret[Caller] = "errSegment"

\* C14: fullCompacted() returns true exactly when the set has at most one file or
\* all its files have the same level and the same sequence, whatever their extent
\* and merge. (Checked under SpecSet.)
C14_FullCompacted ==
    scall.op = "fullCompacted"
    => scall.ret = (\/ Len(files) <= 1
                    \/ \A i, j \in 1..Len(files) :
                          files[i][1] = files[j][1] /\ files[i][2] = files[j][2])

\* fullCompacted() has returned true for two files that differ in extent and merge.
C14_Witness ==
    /\ scall.op = "fullCompacted" /\ scall.ret /\ Len(files) = 2
    /\ files[1][3] # files[2][3] /\ files[1][4] # files[2][4]

\* The files of fs are in ascending order of (sequence, extent).
Ordered(fs) ==
    \A i, j \in 1..Len(fs) :
        i < j => (fs[i][2] < fs[j][2] \/ (fs[i][2] = fs[j][2] /\ fs[i][4] <= fs[j][4]))

\* C15: a sort with Less leaves the files of the set in ascending order of
\* (sequence, extent), and in a set in that order fileIndex(f) returns for a member
\* f the index at which f is, also when other members have the sequence of f; for
\* an empty set it returns -1. (Checked under SpecSet, where no file is stopped.)
C15_SortedIndex ==
    /\ scall.op = "Sort"
       => /\ Ordered(files)
          /\ \A f \in Pool : InSet(files, f) <=> InSet(scall.files, f)
    /\ (scall.op = "fileIndex" /\ Ordered(files))
       => IF InSet(files, scall.f)
          THEN scall.ret \in 0..(Len(files) - 1) /\ files[scall.ret + 1] = scall.f
          ELSE Len(files) = 0 => scall.ret = -1

\* fileIndex has found the last of three ordered files, which shares its sequence
\* with another member.
C15_Witness ==
    /\ scall.op = "fileIndex" /\ Ordered(files) /\ Len(files) = 3
    /\ scall.ret = 2 /\ files[3] = scall.f /\ files[2][2] = files[3][2]

\* C16: fileIndex(f) returns -1 for a file f that is not in the set, and
\* deleteFile(f) for such a file panics and removes nothing; deleteFile changes the
\* stop flag of no file. (Checked under SpecSetStop.)
C16_NonMember ==
    /\ (scall.op = "fileIndex" /\ ~InSet(files, scall.f)) => scall.ret = -1
    /\ (scall.op = "deleteFile" /\ ~InSet(scall.files, scall.f))
       => trap = "file not file" /\ files = scall.files
    /\ scall.op = "deleteFile" => sflag = scall.sflag

\* C20: StopFiles() adds 1 to the closing counter of the set and 1 to the stop flag
\* of every file in the set, which is then stopped, and changes nothing else: not
\* the files of the set nor their order, not the flag of a file outside the set,
\* and no ref count, reader, path or memory counter. (Checked under SpecSetStop.)
C20_StopFilesFrame ==
    scall.op = "StopFiles"
    => /\ closing = scall.closing + 1
       /\ files = scall.files
       /\ \A f \in Pool :
            sflag[f] = IF InSet(files, f) THEN scall.sflag[f] + 1 ELSE scall.sflag[f]
       /\ \A i \in 1..Len(files) : Path(files[i]) = <<>>
       /\ \A f \in Files : ref[f] = 1 /\ wg[f] = 0 /\ open[f] /\ exists[f] /\ pin[f] = 0
       /\ \A l \in Levels : mem[l] = <<0, 0, 0>> /\ lru[l] = <<>>

\* StopFiles() has stopped a set of two or more files.
C20_Witness ==
    /\ scall.op = "StopFiles" /\ Len(files) >= 2 /\ closing = 1
    /\ \A i \in 1..Len(files) : sflag[files[i]] = 1

\* C18: no call forwarded to the reader by a read method overlaps the closing or
\* the unlinking of the reader: when Close() has passed its wait and is at
\* f.reader.Close(), and when Remove() has taken the exclusive lock and is at
\* reader.Close() and fileops.Remove, no read is inside the reader.
\* (Checked under Spec.)
C18_ReadsExcludeClose ==
    \A t \in Threads :
        /\ pc[t] = "cl_close" => inReader[tf[t]] = 0
        /\ (pc[t] = "rm_lock" /\ rl[tf[t]] = 0) => inReader[tf[t]] = 0

\* C19: a call of Stop(), Close() or Remove() that the owner has made returns, or
\* the process has panicked, whenever the goroutines keep being scheduled and every
\* Ref() is followed by its Unref(). (Checked under SpecLive.)
C19_CallsReturn ==
    (pc[Owner] \notin {"idle", "done"}) ~> (pc[Owner] = "done" \/ trap # "none")

\* C21: every file is at most once on the LRU list of a level, at the head when it
\* has just been linked by LoadIntoMemory, and a LoadIntoMemory that traps in
\* AddToEvictList because the file still has its LRU token has left the memory
\* counters of the level as they were when it was called. (Checked under SpecMem.)
C21_LinkedOnce ==
    /\ \A l \in Levels : \A i, j \in 1..Len(lru[l]) : lru[l][i] = lru[l][j] => i = j
    /\ (Returned /\ snap.op = "LoadIntoMemory" /\ ret[Caller] = "nil")
       => Head(lru[level[snap.f]]) = snap.f
    /\ (trap = "memEle need to nil" /\ snap.op = "LoadIntoMemory")
       => mem[level[snap.f]] = snap.mem

\* C22: NewCompactGroup(name, toLevel, count) returns, for every count >= 0, a group
\* with that name and target level and a list of count entries, none of which, like
\* the shard id and the drop flag, holds a value of an earlier use of the group; and
\* release() puts the group back with name, shard id, target level and drop flag
\* reset and a list of length 0. (Checked under SpecGroup.)
C22_GroupFresh ==
    /\ gcall.op = "NewCompactGroup"
       => /\ trap = "none"
          /\ cg.name = gcall.name /\ cg.toLevel = gcall.toLevel /\ cg.len = gcall.count
          /\ cg.shardId = 0 /\ cg.dropping = "nil"
          /\ \A i \in 1..cg.len : GroupList(cg)[i] = ""
    /\ gcall.op = "release"
       => /\ gcall.g.name = "" /\ gcall.g.shardId = 0 /\ gcall.g.toLevel = 0
          /\ gcall.g.len = 0 /\ gcall.g.dropping = "nil"

\* C23: in no interleaving of Ref(), Unref(), Stop(), Close() and Remove() does a
\* wg.Done() find the wait-group of the file at zero, which would make its counter
\* negative and panic. (Checked under Spec.)
C23_WaitGroupNotNegative ==
    /\ \A f \in Files : wg[f] >= 0
    /\ trap # "sync: negative WaitGroup counter"

\* C24: whatever Ref, Unref, Stop, Close and Remove calls are made on a file and
\* however they interleave, fileops.Remove is called at most once on its path.
\* (Checked under Spec.)
C24_UnlinkAtMostOnce ==
    unl[ConcFile][1] + unl[ConcFile][2] + unl[ConcFile][3] <= 1

\* C25: deleteFile(f) for a file f of a set that is in the order of Less does not
\* panic and leaves the set without f and with its other files in the order they
\* had, also when files of the set have been stopped. (Checked under SpecSetStop.)
C25_DeletesExactlyF ==
    (scall.op = "deleteFile" /\ Ordered(scall.files) /\ InSet(scall.files, scall.f))
    => /\ trap = "none"
       /\ files = SelectSeq(scall.files, LAMBDA x : x # scall.f)

\* C26: an UnrefFileReader() that follows a RefFileReader() takes back the pin that
\* call put on the reader: when it has returned the pin count is one less than when
\* it was called, also when the file has been stopped, closed or removed since the
\* RefFileReader(). (Checked under SpecSeq.)
C26_PinsBalanced ==
    (Returned /\ snap.op = "UnrefFileReader") => pin[snap.f] = snap.pin - 1

\* C27: in no interleaving of LoadIntoMemory, Free, Close and Remove running on
\* different goroutines does a counter of a level (total, order, unorder bytes)
\* become negative. (Checked under SpecMemConc.)
C27_CountersNotNegative ==
    \A l \in Levels : \A k \in 1..3 : mem[l][k] >= 0

====
